---- MODULE Spec2Model ----
(***************************************************************************)
(* Model of morgangallant/scheduler (scheduler.go): the one-shot job       *)
(* scheduler (scheduler.start and the /insert, /delete operations) and the *)
(* cron engine (crons.start and the /cron operation).                      *)
(*                                                                         *)
(* The Job and Cron tables are the Prisma store; every store operation is  *)
(* one atomic step.  A store operation that fails for a reason other than  *)
(* not-found or a duplicate key is a separate action (the ...Fails         *)
(* actions), part of the specifications with an unreliable store only.     *)
(* The recomp channels are unbuffered: a send is a rendezvous with the     *)
(* worker's receive, and a sender stays blocked until the worker receives. *)
(***************************************************************************)
EXTENDS Integers, FiniteSets, Sequences, TLC

\* ---- bounds ----
MaxTime == 2        \* the clock runs 0..MaxTime
MaxJobs == 2        \* number of createNewJob calls that persist a job
MaxReconf == 2      \* number of /cron requests

Times == 0..MaxTime
JobIds == 1..MaxJobs
\* An id no createNewJob call returned: a caller's id that names no job.
UnknownId == MaxJobs + 1
NoTime == -1

VARIABLES
    \* ---- one-shot scheduler ----
    now,            \* time.Now()
    jobs,           \* ids of the rows of the Job table
    scheduledFor,   \* Job.scheduledFor of every row ever created (NoTime: not created)
    nextId,         \* the next id CreateOne assigns
    spc,            \* where scheduler.start is
    beforeEquals,   \* the time.Now() the query in progress compares with (NoTime: none)
    listed,         \* the `jobs` slice of the executePendingJobs call in progress
    due,            \* the rest of the `jobs` slice executePendingJobs ranges over
    cur,            \* the job of the loop iteration in progress ({}: none)
    ts,             \* the time nextScheduledJob returned, while in scope (NoTime: nil)
    serr,           \* what scheduler.start returned
    recompSend,     \* number of handlers blocked in `s.recomp <- struct{}{}`
    calls,          \* per job: number of executeJob invocations
    callAt,         \* per job: clock of the first executeJob invocation
    cancelAt,       \* per job: clock of the deleteFutureJob store delete that removed it
    cancelRet,      \* what the last deleteFutureJob call returned
    returned,       \* the ids createNewJob has returned to its callers
    failed,         \* the jobs whose executeJob call returned an error
    \* ---- cron engine ----
    crons,          \* rows of the Cron table
    cpc,            \* where crons.start is
    gen,            \* number of cron clients crons.start has started
    clients,        \* started and not stopped cron clients: [gen, entries]
    reqs,           \* the /cron requests so far: state, descriptor list, insert index
    sigFrom,        \* the request whose signal crons.start received last
    processed,      \* the request whose signal the running build answers
    spawned,        \* goroutines cron started for an entry's function, not yet running
    \* ---- runServers and the web server ----
    rpc,            \* where runServers is
    rerr,           \* the worker whose error runServers took from c ("none": none yet)
    cbuf,           \* the buffered channel c of runServers: workers whose error it holds
    sent,           \* the workers whose goroutine has sent start()'s result on c
    wpc,            \* where webs.start is
    underlying,     \* ws.underlying # nil
    resp            \* the status of the last request a handler refused (0: none yet)

svars == <<now, jobs, scheduledFor, nextId, spc, beforeEquals, listed, due, cur, ts,
           serr, recompSend, calls, callAt, cancelAt, cancelRet, returned, failed>>
cvars == <<crons, cpc, gen, clients, reqs, sigFrom, processed, spawned>>
rvars == <<rpc, rerr, cbuf, sent, wpc, underlying, resp>>
vars == <<svars, cvars, rvars>>

\* ======================= one-shot scheduler =======================

\* newScheduler + an empty Job table; scheduler.start is about to run its first sweep.
SchedInit ==
    /\ now = 0
    /\ jobs = {}
    /\ scheduledFor = [j \in JobIds |-> NoTime]
    /\ nextId = 1
    /\ spc = "sweep"
    /\ beforeEquals = NoTime
    /\ listed = {}
    /\ due = {}
    /\ cur = {}
    /\ ts = NoTime
    /\ serr = "none"
    /\ recompSend = 0
    /\ calls = [j \in JobIds |-> 0]
    /\ callAt = [j \in JobIds |-> NoTime]
    /\ cancelAt = [j \in JobIds |-> NoTime]
    /\ cancelRet = "none"
    /\ returned = {}
    /\ failed = {}

\* The wall clock advances.
Tick ==
    /\ now < MaxTime
    /\ now' = now + 1
    /\ UNCHANGED <<jobs, scheduledFor, nextId, spc, due, cur, ts, serr, recompSend,
                   calls, callAt, cancelAt, cancelRet, returned>>
    /\ UNCHANGED <<beforeEquals, listed, failed>>
    /\ UNCHANGED cvars
    /\ UNCHANGED rvars

\* executePendingJobs: time.Now(), the argument of BeforeEquals, is read before the
\* query goes to the store.
ExecutePendingJobsNow ==
    /\ spc = "sweep"
    /\ beforeEquals' = now
    /\ spc' = "query"
    /\ UNCHANGED <<now, jobs, scheduledFor, nextId, due, cur, ts, serr, recompSend,
                   calls, callAt, cancelAt, cancelRet, returned>>
    /\ UNCHANGED <<listed, failed>>
    /\ UNCHANGED cvars
    /\ UNCHANGED rvars

\* The query of executePendingJobs with the comparison the wrong way round.
PendingJobsAfterEquals == {j \in jobs : scheduledFor[j] >= beforeEquals}

\* Job.FindMany(ScheduledFor.BeforeEquals(...)).Exec: the rows the store holds when
\* it runs the query, compared with the time read before.
PendingJobs == {j \in jobs : scheduledFor[j] <= beforeEquals}

\* executePendingJobs: the store runs the query for the due jobs.
ExecutePendingJobsQuery ==
    /\ spc = "query"
    /\ listed' = PendingJobs
    /\ due' = PendingJobs
    /\ beforeEquals' = NoTime
    /\ UNCHANGED failed
    /\ spc' = "exec"
    /\ UNCHANGED <<now, jobs, scheduledFor, nextId, cur, ts, serr, recompSend,
                   calls, callAt, cancelAt, cancelRet, returned>>
    /\ UNCHANGED cvars
    /\ UNCHANGED rvars

\* executePendingJobs: the query returns an error, scheduler.start returns it.
ExecutePendingJobsQueryFails ==
    /\ spc = "query"
    /\ spc' = "stopped"
    /\ serr' = "store"
    /\ beforeEquals' = NoTime
    /\ UNCHANGED <<now, jobs, scheduledFor, nextId, due, cur, ts, recompSend,
                   calls, callAt, cancelAt, cancelRet, returned>>
    /\ UNCHANGED <<listed, failed>>
    /\ UNCHANGED cvars
    /\ UNCHANGED rvars

\* executePendingJobs: one loop iteration's executeJob(job), in the order the store
\* returned the rows; the callback's error is logged and the loop goes on to the delete.
ExecuteJob ==
    /\ spc = "exec"
    /\ \E j \in due :
          /\ cur' = {j}
          /\ due' = due \ {j}
          /\ calls' = [calls EXCEPT ![j] = @ + 1]
          /\ callAt' = [callAt EXCEPT ![j] = IF calls[j] = 0 THEN now ELSE @]
    /\ spc' = "delete"
    /\ UNCHANGED <<now, jobs, scheduledFor, nextId, ts, serr, recompSend,
                   cancelAt, cancelRet, returned>>
    /\ UNCHANGED <<beforeEquals, listed, failed>>
    /\ UNCHANGED cvars
    /\ UNCHANGED rvars

\* The loop returning the error of executeJob instead of logging it.
ExecuteJobFailsAborts ==
    /\ spc = "exec"
    /\ \E j \in due :
          /\ cur' = {j}
          /\ due' = due \ {j}
          /\ calls' = [calls EXCEPT ![j] = @ + 1]
          /\ callAt' = [callAt EXCEPT ![j] = IF calls[j] = 0 THEN now ELSE @]
          /\ failed' = failed \cup {j}
    /\ spc' = "stopped"
    /\ serr' = "delivery"
    /\ UNCHANGED <<now, jobs, scheduledFor, nextId, ts, recompSend,
                   cancelAt, cancelRet, returned>>
    /\ UNCHANGED <<beforeEquals, listed>>
    /\ UNCHANGED cvars
    /\ UNCHANGED rvars

\* executePendingJobs: one loop iteration's executeJob(job) returns an error (a
\* transport error or a status other than 200); it is logged and the loop goes on
\* to the delete.
ExecuteJobFails ==
    /\ spc = "exec"
    /\ \E j \in due :
          /\ cur' = {j}
          /\ due' = due \ {j}
          /\ calls' = [calls EXCEPT ![j] = @ + 1]
          /\ callAt' = [callAt EXCEPT ![j] = IF calls[j] = 0 THEN now ELSE @]
          /\ failed' = failed \cup {j}
    /\ spc' = "delete"
    /\ UNCHANGED <<now, jobs, scheduledFor, nextId, ts, serr, recompSend,
                   cancelAt, cancelRet, returned>>
    /\ UNCHANGED <<beforeEquals, listed>>
    /\ UNCHANGED cvars
    /\ UNCHANGED rvars

\* The loop iteration with its Delete() call left out.
DeleteExecutedJobNoDelete ==
    /\ spc = "delete"
    /\ spc' = "exec"
    /\ cur' = {}
    /\ UNCHANGED <<now, jobs, scheduledFor, nextId, due, ts, serr, recompSend,
                   calls, callAt, cancelAt, cancelRet, returned>>
    /\ UNCHANGED <<beforeEquals, listed, failed>>
    /\ UNCHANGED cvars
    /\ UNCHANGED rvars

\* executePendingJobs: the loop iteration's Job.FindUnique(ID).Delete(); its error,
\* ErrNotFound like any other, is returned and ends scheduler.start.
DeleteExecutedJob ==
    /\ spc = "delete"
    /\ \/ /\ cur \subseteq jobs
          /\ jobs' = jobs \ cur
          /\ spc' = "exec"
          /\ cur' = {}
          /\ UNCHANGED serr
       \/ /\ ~(cur \subseteq jobs)
          /\ spc' = "stopped"
          /\ serr' = "notfound"
          /\ UNCHANGED <<jobs, cur>>
    /\ UNCHANGED <<now, scheduledFor, nextId, due, ts, recompSend,
                   calls, callAt, cancelAt, cancelRet, returned>>
    /\ UNCHANGED <<beforeEquals, listed, failed>>
    /\ UNCHANGED cvars
    /\ UNCHANGED rvars

\* The loop logging the error of the delete and going on to the next job.
DeleteExecutedJobFailsContinues ==
    /\ spc = "delete"
    /\ spc' = "exec"
    /\ cur' = {}
    /\ UNCHANGED <<now, jobs, scheduledFor, nextId, due, ts, serr, recompSend,
                   calls, callAt, cancelAt, cancelRet, returned>>
    /\ UNCHANGED <<beforeEquals, listed, failed>>
    /\ UNCHANGED cvars
    /\ UNCHANGED rvars

\* executePendingJobs: the loop iteration's delete fails in the store.
DeleteExecutedJobFails ==
    /\ spc = "delete"
    /\ spc' = "stopped"
    /\ serr' = "store"
    /\ UNCHANGED <<now, jobs, scheduledFor, nextId, due, cur, ts, recompSend,
                   calls, callAt, cancelAt, cancelRet, returned>>
    /\ UNCHANGED <<beforeEquals, listed, failed>>
    /\ UNCHANGED cvars
    /\ UNCHANGED rvars

\* The loop left before the end of the slice.
ExecutePendingJobsReturnEarly ==
    /\ spc = "exec"
    /\ spc' = "next"
    /\ UNCHANGED <<now, jobs, scheduledFor, nextId, due, cur, ts, serr, recompSend,
                   calls, callAt, cancelAt, cancelRet, returned>>
    /\ UNCHANGED <<beforeEquals, listed, failed>>
    /\ UNCHANGED cvars
    /\ UNCHANGED rvars

\* executePendingJobs: the loop is over, return nil.
ExecutePendingJobsReturn ==
    /\ spc = "exec"
    /\ due = {}
    /\ spc' = "next"
    /\ UNCHANGED <<now, jobs, scheduledFor, nextId, due, cur, ts, serr, recompSend,
                   calls, callAt, cancelAt, cancelRet, returned>>
    /\ UNCHANGED <<beforeEquals, listed, failed>>
    /\ UNCHANGED cvars
    /\ UNCHANGED rvars

\* Job.FindMany().OrderBy(ScheduledFor ASC).Take(1): the earliest scheduledFor.
EarliestScheduledFor ==
    CHOOSE t \in Times : /\ \E j \in jobs : scheduledFor[j] = t
                         /\ \A j \in jobs : scheduledFor[j] >= t

\* nextScheduledJob and the branch of scheduler.start on its result: wait for a
\* signal when there is no job, else sleep until the earliest scheduledFor.
NextScheduledJob ==
    /\ spc = "next"
    /\ \/ /\ jobs = {}
          /\ ts' = NoTime
          /\ spc' = "waiting"
       \/ /\ jobs # {}
          /\ ts' = EarliestScheduledFor
          /\ spc' = "sleeping"
    /\ listed' = {}
    /\ UNCHANGED <<beforeEquals, failed>>
    /\ UNCHANGED <<now, jobs, scheduledFor, nextId, due, cur, serr, recompSend,
                   calls, callAt, cancelAt, cancelRet, returned>>
    /\ UNCHANGED cvars
    /\ UNCHANGED rvars

\* nextScheduledJob returns an error, scheduler.start returns it.
NextScheduledJobFails ==
    /\ spc = "next"
    /\ spc' = "stopped"
    /\ serr' = "store"
    /\ UNCHANGED <<now, jobs, scheduledFor, nextId, due, cur, ts, recompSend,
                   calls, callAt, cancelAt, cancelRet, returned>>
    /\ UNCHANGED <<beforeEquals, listed, failed>>
    /\ UNCHANGED cvars
    /\ UNCHANGED rvars

\* The createNewJob calls blocked in the send: their ids are not returned yet.
BlockedCreates == {j \in JobIds : j < nextId /\ j \notin returned}

\* scheduler.start: `<-s.recomp`, alone or in the select; the sender it meets
\* returns: a createNewJob call its id, a deleteFutureJob call nil.
RecvRecomp ==
    /\ spc \in {"waiting", "sleeping"}
    /\ recompSend > 0
    /\ recompSend' = recompSend - 1
    /\ \/ /\ \E j \in BlockedCreates : returned' = returned \cup {j}
          /\ UNCHANGED cancelRet
       \/ /\ recompSend > Cardinality(BlockedCreates)
          /\ cancelRet' = "nil"
          /\ UNCHANGED returned
    /\ spc' = "sweep"
    /\ ts' = NoTime
    /\ UNCHANGED <<now, jobs, scheduledFor, nextId, due, cur, serr,
                   calls, callAt, cancelAt>>
    /\ UNCHANGED <<beforeEquals, listed, failed>>
    /\ UNCHANGED cvars
    /\ UNCHANGED rvars

\* The select's timer case with no wait for the duration.
TimerFireAtOnce ==
    /\ spc = "sleeping"
    /\ spc' = "sweep"
    /\ ts' = NoTime
    /\ UNCHANGED <<now, jobs, scheduledFor, nextId, due, cur, serr, recompSend,
                   calls, callAt, cancelAt, cancelRet, returned>>
    /\ UNCHANGED <<beforeEquals, listed, failed>>
    /\ UNCHANGED cvars
    /\ UNCHANGED rvars

\* scheduler.start: `<-time.After(time.Until(*ts))` in the select.
TimerFire ==
    /\ spc = "sleeping"
    /\ now >= ts
    /\ spc' = "sweep"
    /\ ts' = NoTime
    /\ UNCHANGED <<now, jobs, scheduledFor, nextId, due, cur, serr, recompSend,
                   calls, callAt, cancelAt, cancelRet, returned>>
    /\ UNCHANGED <<beforeEquals, listed, failed>>
    /\ UNCHANGED cvars
    /\ UNCHANGED rvars

\* createNewJob without the send on s.recomp: it returns the id at once.
CreateNewJobNoSignal(on) ==
    /\ nextId <= MaxJobs
    /\ jobs' = jobs \cup {nextId}
    /\ scheduledFor' = [scheduledFor EXCEPT ![nextId] = on]
    /\ nextId' = nextId + 1
    /\ returned' = returned \cup {nextId}
    /\ UNCHANGED <<now, spc, due, cur, ts, serr, recompSend, calls, callAt, cancelAt,
                   cancelRet>>
    /\ UNCHANGED <<beforeEquals, listed, failed>>
    /\ UNCHANGED cvars
    /\ UNCHANGED rvars

\* createNewJob: Job.CreateOne, then the handler blocks sending on s.recomp.
CreateNewJob(on) ==
    /\ nextId <= MaxJobs
    /\ jobs' = jobs \cup {nextId}
    /\ scheduledFor' = [scheduledFor EXCEPT ![nextId] = on]
    /\ nextId' = nextId + 1
    /\ recompSend' = recompSend + 1
    /\ UNCHANGED <<now, spc, due, cur, ts, serr, calls, callAt, cancelAt,
                   cancelRet, returned>>
    /\ UNCHANGED <<beforeEquals, listed, failed>>
    /\ UNCHANGED cvars
    /\ UNCHANGED rvars

\* deleteFutureJob with the store delete left out: it only signals.
DeleteFutureJobNoDelete(id) ==
    /\ id \in jobs
    /\ recompSend' = recompSend + 1
    /\ cancelAt' = [cancelAt EXCEPT ![id] = now]
    /\ UNCHANGED <<now, jobs, scheduledFor, nextId, spc, due, cur, ts, serr,
                   calls, callAt, cancelRet, returned>>
    /\ UNCHANGED <<beforeEquals, listed, failed>>
    /\ UNCHANGED cvars
    /\ UNCHANGED rvars

\* deleteFutureJob without the errors.Is(err, db.ErrNotFound) branch.
DeleteFutureJobNotFoundIsError(id) ==
    /\ \/ /\ id \in jobs
          /\ jobs' = jobs \ {id}
          /\ recompSend' = recompSend + 1
          /\ cancelAt' = [cancelAt EXCEPT ![id] = now]
          /\ UNCHANGED cancelRet
       \/ /\ id \notin jobs
          /\ cancelRet' = "err"
          /\ UNCHANGED <<jobs, recompSend, cancelAt>>
    /\ UNCHANGED <<now, scheduledFor, nextId, spc, due, cur, ts, serr,
                   calls, callAt, returned>>
    /\ UNCHANGED <<beforeEquals, listed, failed>>
    /\ UNCHANGED cvars
    /\ UNCHANGED rvars

\* deleteFutureJob: Job.FindUnique(ID).Delete(); on success the call blocks in the
\* send on s.recomp and returns only once scheduler.start receives (RecvRecomp);
\* ErrNotFound returns nil at once without a signal.
DeleteFutureJob(id) ==
    /\ \/ /\ id \in jobs
          /\ jobs' = jobs \ {id}
          /\ recompSend' = recompSend + 1
          /\ cancelAt' = [cancelAt EXCEPT ![id] = now]
          /\ UNCHANGED cancelRet
       \/ /\ id \notin jobs
          /\ cancelRet' = "nil"
          /\ UNCHANGED <<jobs, recompSend, cancelAt>>
    /\ UNCHANGED <<now, scheduledFor, nextId, spc, due, cur, ts, serr,
                   calls, callAt, returned>>
    /\ UNCHANGED <<beforeEquals, listed, failed>>
    /\ UNCHANGED cvars
    /\ UNCHANGED rvars

\* createNewJob: Job.CreateOne fails, the error is returned, no signal.
CreateNewJobFails ==
    /\ UNCHANGED svars
    /\ UNCHANGED cvars
    /\ UNCHANGED rvars

\* deleteFutureJob: the delete fails other than by ErrNotFound, the error is returned.
DeleteFutureJobFails ==
    /\ cancelRet' = "err"
    /\ UNCHANGED <<now, jobs, scheduledFor, nextId, spc, due, cur, ts, serr, recompSend,
                   calls, callAt, cancelAt, returned>>
    /\ UNCHANGED <<beforeEquals, listed, failed>>
    /\ UNCHANGED cvars
    /\ UNCHANGED rvars

\* ======================= cron engine =======================

\* The cron ids callers use, and the longest `jobs` list of a request.
CronIds == {"a", "b"}
MaxList == Cardinality(CronIds)
GoodSpec == "*/30 * * * * *"
BadSpec == "not a schedule"

\* cron.AddFunc's parse of a schedule expression (robfig/cron, six fields).
ParseOk(spec) == spec = GoodSpec

\* The cronJob values a caller sends: an id and a schedule expression.
Descriptor(id, spec) == [id |-> id, spec |-> spec]
GoodDescriptors == {Descriptor(id, GoodSpec) : id \in CronIds}
AllDescriptors == {Descriptor(id, s) : id \in CronIds, s \in {GoodSpec, BadSpec}}

\* The `jobs` lists of /cron requests over a set of descriptors.
Lists(D) == UNION {[1..n -> D] : n \in 0..MaxList}

\* The `jobs` lists whose schedule expressions all parse.
GoodLists == Lists(GoodDescriptors)

Range(f) == {f[i] : i \in DOMAIN f}

\* No two descriptors of the list have the same id.
DistinctIds(list) == \A i, j \in DOMAIN list : i # j => list[i].id # list[j].id

\* newCrons + an empty Cron table; crons.start is about to build.
CronInit ==
    /\ crons = {}
    /\ cpc = "build"
    /\ gen = 0
    /\ clients = {}
    /\ reqs = <<>>
    /\ sigFrom = 0
    /\ processed = 0
    /\ spawned = {}

\* crons.getCronJobs: every row of the Cron table.
GetCronJobs == crons

\* crons.start, one build: cron.New, getCronJobs, AddFunc for every row, client.Start.
CronsBuild ==
    /\ cpc = "build"
    /\ \A d \in GetCronJobs : ParseOk(d.spec)
    /\ clients' = clients \cup {[gen |-> gen + 1, entries |-> GetCronJobs]}
    /\ gen' = gen + 1
    /\ cpc' = "running"
    /\ processed' = sigFrom
    /\ UNCHANGED <<crons, reqs, sigFrom, spawned>>
    /\ UNCHANGED svars
    /\ UNCHANGED rvars

\* The build logging the error of AddFunc and going on without that row.
CronsBuildSkipsRejected ==
    /\ cpc = "build"
    /\ \E d \in GetCronJobs : ~ParseOk(d.spec)
    /\ clients' = clients \cup {[gen |-> gen + 1,
                                  entries |-> {d \in GetCronJobs : ParseOk(d.spec)}]}
    /\ gen' = gen + 1
    /\ cpc' = "running"
    /\ processed' = sigFrom
    /\ UNCHANGED <<crons, reqs, sigFrom, spawned>>
    /\ UNCHANGED svars
    /\ UNCHANGED rvars

\* crons.start, one build: AddFunc rejects a schedule expression, start returns the error.
CronsBuildAddFuncFails ==
    /\ cpc = "build"
    /\ \E d \in GetCronJobs : ~ParseOk(d.spec)
    /\ cpc' = "stopped"
    /\ processed' = sigFrom
    /\ UNCHANGED <<crons, gen, clients, reqs, sigFrom, spawned>>
    /\ UNCHANGED svars
    /\ UNCHANGED rvars

\* crons.start, one build: getCronJobs fails, start returns the error.
CronsBuildGetFails ==
    /\ cpc = "build"
    /\ cpc' = "stopped"
    /\ processed' = sigFrom
    /\ UNCHANGED <<crons, gen, clients, reqs, sigFrom, spawned>>
    /\ UNCHANGED svars
    /\ UNCHANGED rvars

\* The run loop of a started client finds an entry's schedule due: cron starts the
\* entry's function in a goroutine of its own.
CronFire ==
    /\ \E c \in clients : \E e \in c.entries :
          /\ [gen |-> c.gen, id |-> e.id] \notin spawned
          /\ spawned' = spawned \cup {[gen |-> c.gen, id |-> e.id]}
    /\ UNCHANGED <<crons, cpc, gen, clients, reqs, sigFrom, processed>>
    /\ UNCHANGED svars
    /\ UNCHANGED rvars

\* The goroutine of a firing gets to run: the closure of AddFunc calls
\* executeCronJob(j.JobID). Nothing makes it wait for crons.start, and client.Stop()
\* does not wait for it (crons.start drops the context Stop returns).
ExecuteCronJob(f) ==
    /\ f \in spawned
    /\ spawned' = spawned \ {f}
    /\ UNCHANGED <<crons, cpc, gen, clients, reqs, sigFrom, processed>>
    /\ UNCHANGED svars
    /\ UNCHANGED rvars

\* crons.start: `<-cs.recomp`; the /cron handler it meets returns 200.
CronsRecvRecomp(k) ==
    /\ cpc = "running"
    /\ k \in DOMAIN reqs
    /\ reqs[k].st = "send"
    /\ reqs' = [reqs EXCEPT ![k].st = "ok"]
    /\ cpc' = "teardown"
    /\ sigFrom' = k
    /\ processed' = 0
    /\ UNCHANGED <<crons, gen, clients, spawned>>
    /\ UNCHANGED svars
    /\ UNCHANGED rvars

\* crons.start: client.Stop() of the client of this loop iteration, then loop.
CronsStop ==
    /\ cpc = "teardown"
    /\ clients' = {c \in clients : c.gen # gen}
    /\ cpc' = "build"
    /\ UNCHANGED <<crons, gen, reqs, sigFrom, processed, spawned>>
    /\ UNCHANGED svars
    /\ UNCHANGED rvars

\* What the handler does after the insert of jobs[i]: the next insert, or the send.
AfterInsert(list, i) == IF i >= Len(list) THEN "send" ELSE "insert"

\* cronHandler: the request is decoded and clearCronJobs deletes every row.
CronHandlerClear(list) ==
    /\ Len(reqs) < MaxReconf
    /\ crons' = {}
    /\ reqs' = Append(reqs, [st |-> AfterInsert(list, 0), jobs |-> list, i |-> 1])
    /\ UNCHANGED <<cpc, gen, clients, sigFrom, processed, spawned>>
    /\ UNCHANGED svars
    /\ UNCHANGED rvars

\* cronHandler: clearCronJobs fails, the handler answers 500.
CronHandlerClearFails(list) ==
    /\ Len(reqs) < MaxReconf
    /\ reqs' = Append(reqs, [st |-> "err", jobs |-> list, i |-> 1])
    /\ UNCHANGED <<crons, cpc, gen, clients, sigFrom, processed, spawned>>
    /\ UNCHANGED svars
    /\ UNCHANGED rvars

\* Cron.CreateOne of a row whose id (the key of the Cron table) is already there.
DuplicateId(d) == \E r \in crons : r.id = d.id

\* cronHandler: insertCronJob(jobs[i]); an error answers 500 without a signal, the
\* last insert is followed by the send on cs.recomp.
CronHandlerInsert(k) ==
    /\ k \in DOMAIN reqs
    /\ reqs[k].st = "insert"
    /\ LET d == reqs[k].jobs[reqs[k].i] IN
          \/ /\ ~DuplicateId(d)
             /\ crons' = crons \cup {d}
             /\ reqs' = [reqs EXCEPT ![k].st = AfterInsert(reqs[k].jobs, reqs[k].i),
                                     ![k].i = @ + 1]
          \/ /\ DuplicateId(d)
             /\ reqs' = [reqs EXCEPT ![k].st = "err"]
             /\ UNCHANGED crons
    /\ UNCHANGED <<cpc, gen, clients, sigFrom, processed, spawned>>
    /\ UNCHANGED svars
    /\ UNCHANGED rvars

\* cronHandler: insertCronJob(jobs[i]) fails in the store, the handler answers 500.
CronHandlerInsertFails(k) ==
    /\ k \in DOMAIN reqs
    /\ reqs[k].st = "insert"
    /\ reqs' = [reqs EXCEPT ![k].st = "err"]
    /\ UNCHANGED <<crons, cpc, gen, clients, sigFrom, processed, spawned>>
    /\ UNCHANGED svars
    /\ UNCHANGED rvars

\* ======================= runServers and the web server =======================

Workers == {"scheduler", "crons", "webs"}

\* run: the three servers are constructed, runServers has started their goroutines
\* and is blocked in `err := <-c`.
RunInit ==
    /\ rpc = "recv"
    /\ rerr = "none"
    /\ cbuf = <<>>
    /\ sent = {}
    /\ wpc = "init"
    /\ underlying = FALSE
    /\ resp = 0

\* s.start() has returned in the goroutine of worker w.
StartReturned(w) ==
    \/ w = "scheduler" /\ spc = "stopped"
    \/ w = "crons" /\ cpc = "stopped"
    \/ w = "webs" /\ wpc = "stopped"

\* The handlers that have not returned: blocked in a send on s.recomp or
\* cs.recomp, or between the store calls of cronHandler.
ActiveHandlers == recompSend > 0 \/ \E k \in DOMAIN reqs : reqs[k].st \in {"insert", "send"}

\* webs.start: ws.underlying is set and ListenAndServe serves.
WebsStart ==
    /\ wpc = "init"
    /\ underlying' = TRUE
    /\ wpc' = "serving"
    /\ UNCHANGED <<rpc, rerr, cbuf, sent, resp>>
    /\ UNCHANGED <<svars, cvars>>

\* webs.start: ListenAndServe cannot listen and returns the error.
WebsStartFails ==
    /\ wpc = "init"
    /\ underlying' = TRUE
    /\ wpc' = "stopped"
    /\ UNCHANGED <<rpc, rerr, cbuf, sent, resp>>
    /\ UNCHANGED <<svars, cvars>>

\* runServers: the goroutine of worker w sends start()'s result on c (capacity 1).
SendResult(w) ==
    /\ StartReturned(w)
    /\ w \notin sent
    /\ Len(cbuf) < 1
    /\ cbuf' = Append(cbuf, w)
    /\ sent' = sent \cup {w}
    /\ UNCHANGED <<rpc, rerr, wpc, underlying, resp>>
    /\ UNCHANGED <<svars, cvars>>

\* runServers: `err := <-c`.
RunServersRecv ==
    /\ rpc = "recv"
    /\ cbuf # <<>>
    /\ rerr' = Head(cbuf)
    /\ cbuf' = Tail(cbuf)
    /\ rpc' = "stop"
    /\ UNCHANGED <<sent, wpc, underlying, resp>>
    /\ UNCHANGED <<svars, cvars>>

\* runServers: the loop of server.stop() calls.  scheduler.stop and crons.stop only
\* log.  webs.stop returns at once when it reads ws.underlying as nil (the read is
\* not ordered with the write in webs.start, so it may miss it), else it calls
\* Shutdown(context.Background()): the listener is closed, ListenAndServe returns,
\* and Shutdown waits for the handlers that have not returned.
RunServersStop ==
    /\ rpc = "stop"
    /\ \E seen \in {underlying, FALSE} :
          \/ /\ ~seen
             /\ rpc' = "returned"
             /\ UNCHANGED wpc
          \/ /\ seen
             /\ rpc' = "shutdown"
             /\ wpc' = "stopped"
    /\ UNCHANGED <<rerr, cbuf, sent, underlying, resp>>
    /\ UNCHANGED <<svars, cvars>>

\* webs.stop: Shutdown returns once no handler is running; runServers returns err.
WebsShutdownReturn ==
    /\ rpc = "shutdown"
    /\ ~ActiveHandlers
    /\ underlying' = FALSE
    /\ rpc' = "returned"
    /\ UNCHANGED <<rerr, cbuf, sent, wpc, resp>>
    /\ UNCHANGED <<svars, cvars>>

\* The configured secret (ws.sched.secret) and the Scheduler-Secret header values.
Secret == "secret"
WrongSecret == "wrong"
Secrets == {Secret, WrongSecret}
StatusUnauthorized == 401

\* http.Error(w, ..., code) and return: the handler has touched nothing.
Refuse(code) ==
    /\ resp' = code
    /\ UNCHANGED <<rpc, rerr, cbuf, sent, wpc, underlying>>
    /\ UNCHANGED <<svars, cvars>>

\* insertHandler without the comparison of the header with the secret.
InsertHandlerNoAuth(sec, on) == wpc = "serving" /\ CreateNewJob(on)

\* insertHandler (body decodable): 401 unless the header is the secret, else createNewJob.
InsertHandler(sec, on) ==
    /\ wpc = "serving"
    /\ IF sec # Secret THEN Refuse(StatusUnauthorized) ELSE CreateNewJob(on)

\* deleteHandler (body decodable): 401 unless the header is the secret, else
\* deleteFutureJob.
DeleteHandler(sec, id) ==
    /\ wpc = "serving"
    /\ IF sec # Secret THEN Refuse(StatusUnauthorized) ELSE DeleteFutureJob(id)

\* cronHandler (body decodable): 401 unless the header is the secret, else
\* clearCronJobs and on to the inserts.
CronHandler(sec, list) ==
    /\ wpc = "serving"
    /\ IF sec # Secret THEN Refuse(StatusUnauthorized) ELSE CronHandlerClear(list)

\* ======================= specifications =======================

Init == SchedInit /\ CronInit /\ RunInit

\* The scheduler with a Job store that fails only by not-found.
SchedNext ==
    \/ Tick
    \/ ExecutePendingJobsNow
    \/ ExecutePendingJobsQuery
    \/ ExecuteJob
    \/ DeleteExecutedJob
    \/ ExecutePendingJobsReturn
    \/ NextScheduledJob
    \/ RecvRecomp
    \/ TimerFire
    \/ \E on \in Times : CreateNewJob(on)
    \/ \E id \in returned \cup {UnknownId} : DeleteFutureJob(id)

SchedSpec == Init /\ [][SchedNext]_vars

\* The steps of scheduler.start.
SchedulerStep ==
    \/ ExecutePendingJobsNow
    \/ ExecutePendingJobsQuery
    \/ ExecuteJob
    \/ DeleteExecutedJob
    \/ ExecutePendingJobsReturn
    \/ NextScheduledJob
    \/ RecvRecomp
    \/ TimerFire

\* The clock advances and the scheduler goroutine is scheduled.
FairSchedSpec == SchedSpec /\ WF_vars(Tick) /\ WF_vars(SchedulerStep)

\* The scheduler with createNewJob calls and a callback receiver whose answers may
\* be failures (no deleteFutureJob calls).
DeliveryNext ==
    \/ Tick
    \/ SchedulerStep
    \/ ExecuteJobFails
    \/ \E on \in Times : CreateNewJob(on)

DeliverySpec == Init /\ [][DeliveryNext]_vars

\* The scheduler with createNewJob calls and a Job store whose delete in the sweep
\* may fail (no deleteFutureJob calls).
DeleteFailNext ==
    \/ Tick
    \/ SchedulerStep
    \/ DeleteExecutedJobFails
    \/ \E on \in Times : CreateNewJob(on)

DeleteFailSpec == Init /\ [][DeleteFailNext]_vars

\* scheduler.start is between a wake and its next block: in executePendingJobs or
\* in nextScheduledJob.
MidSweep == spc \in {"sweep", "query", "exec", "delete", "next"}

\* The scheduler with createNewJob and deleteFutureJob calls that arrive only while
\* it is mid-sweep.
MidSweepNext ==
    \/ Tick
    \/ SchedulerStep
    \/ MidSweep /\ \E on \in Times : CreateNewJob(on)
    \/ MidSweep /\ \E id \in returned \cup {UnknownId} : DeleteFutureJob(id)

MidSweepSpec == Init /\ [][MidSweepNext]_vars

\* The scheduler with a Job store any operation of which may fail.
SchedFailNext ==
    \/ SchedNext
    \/ ExecutePendingJobsQueryFails
    \/ DeleteExecutedJobFails
    \/ NextScheduledJobFails
    \/ CreateNewJobFails
    \/ DeleteFutureJobFails

SchedFailSpec == Init /\ [][SchedFailNext]_vars

\* The cron engine with a Cron store that fails only by a duplicate id, and
\* requests whose schedule expressions all parse.
CronNext ==
    \/ CronsBuild
    \/ CronFire
    \/ \E f \in spawned : ExecuteCronJob(f)
    \/ \E k \in 1..MaxReconf : CronsRecvRecomp(k)
    \/ CronsStop
    \/ \E list \in Lists(GoodDescriptors) : CronHandlerClear(list)
    \/ \E k \in 1..MaxReconf : CronHandlerInsert(k)

CronSpec == Init /\ [][CronNext]_vars

\* The cron engine with a Cron store any operation of which may fail.
CronFailNext ==
    \/ CronNext
    \/ CronsBuildGetFails
    \/ \E list \in Lists(GoodDescriptors) : CronHandlerClearFails(list)
    \/ \E k \in 1..MaxReconf : CronHandlerInsertFails(k)

CronFailSpec == Init /\ [][CronFailNext]_vars

\* A `jobs` list of the descriptors of the set D, in some order.
ListOf(D) == CHOOSE list \in [1..Cardinality(D) -> D] : Range(list) = D

\* The request lists of distinct ids, with schedule expressions that parse or not:
\* one list for every set of descriptors no two of which have the same id.
DistinctLists ==
    {ListOf(D) : D \in {E \in SUBSET AllDescriptors :
                           \A d, e \in E : d.id = e.id => d = e}}

\* The cron engine with requests whose schedule expressions may not parse.
CronBadNext ==
    \/ CronsBuild
    \/ CronsBuildAddFuncFails
    \/ CronFire
    \/ \E f \in spawned : ExecuteCronJob(f)
    \/ \E k \in 1..MaxReconf : CronsRecvRecomp(k)
    \/ CronsStop
    \/ \E list \in DistinctLists : CronHandlerClear(list)
    \/ \E k \in 1..MaxReconf : CronHandlerInsert(k)

CronBadSpec == Init /\ [][CronBadNext]_vars

\* run has not returned: main has not ended the process.
Alive == rpc # "returned"

\* The steps of runServers in the main goroutine.
RunServersStep ==
    \/ RunServersRecv
    \/ RunServersStop
    \/ WebsShutdownReturn

\* The whole process with the /insert and /delete handlers, a Job store and a Cron
\* store whose queries may fail, and a listener that may fail: the clock, the
\* steps of the three workers' goroutines, of runServers and of the handlers, none
\* of them once run has returned.
RunNext ==
    \/ Alive /\ Tick
    \/ Alive /\ ExecutePendingJobsNow
    \/ Alive /\ ExecutePendingJobsQuery
    \/ Alive /\ ExecuteJob
    \/ Alive /\ DeleteExecutedJob
    \/ Alive /\ ExecutePendingJobsReturn
    \/ Alive /\ NextScheduledJob
    \/ Alive /\ RecvRecomp
    \/ Alive /\ TimerFire
    \/ Alive /\ ExecutePendingJobsQueryFails
    \/ Alive /\ DeleteExecutedJobFails
    \/ Alive /\ NextScheduledJobFails
    \/ Alive /\ CronsBuild
    \/ Alive /\ CronsBuildGetFails
    \/ Alive /\ WebsStart
    \/ Alive /\ WebsStartFails
    \/ Alive /\ \E w \in Workers : SendResult(w)
    \/ Alive /\ RunServersRecv
    \/ Alive /\ RunServersStop
    \/ Alive /\ WebsShutdownReturn
    \/ Alive /\ \E on \in Times : InsertHandler(Secret, on)
    \/ Alive /\ \E id \in returned \cup {UnknownId} : DeleteHandler(Secret, id)

RunSpec == Init /\ [][RunNext]_vars

\* Every goroutine that can take a step is scheduled.
FairRunSpec ==
    /\ RunSpec
    /\ WF_vars(Alive /\ SchedulerStep)
    /\ WF_vars(Alive /\ (CronsBuild \/ WebsStart))
    /\ \A w \in Workers : WF_vars(Alive /\ SendResult(w))
    /\ WF_vars(Alive /\ RunServersStep)

\* The process started on a store that holds the Job rows an earlier run of it
\* persisted (all of JobIds but the last, due at MaxTime, their ids returned then).
AuthInit ==
    /\ jobs = JobIds \ {MaxJobs}
    /\ scheduledFor = [j \in JobIds |-> IF j < MaxJobs THEN MaxTime ELSE NoTime]
    /\ nextId = MaxJobs
    /\ returned = JobIds \ {MaxJobs}
    /\ failed = {}
    /\ now = 0
    /\ spc = "sweep"
    /\ beforeEquals = NoTime
    /\ listed = {}
    /\ due = {}
    /\ cur = {}
    /\ ts = NoTime
    /\ serr = "none"
    /\ recompSend = 0
    /\ calls = [j \in JobIds |-> 0]
    /\ callAt = [j \in JobIds |-> NoTime]
    /\ cancelAt = [j \in JobIds |-> NoTime]
    /\ cancelRet = "none"
    /\ CronInit
    /\ RunInit

\* The `jobs` lists of the /cron requests sent with the wrong secret.
RefusedLists == {list \in GoodLists : Len(list) = MaxList /\ DistinctIds(list)}

\* The web server and the cron engine, with /cron requests of either secret and
\* /insert and /delete requests of the wrong secret, before the scheduler's
\* goroutine has taken a step and before a trigger's schedule is due.
AuthNext ==
    \/ WebsStart
    \/ CronsBuild
    \/ \E k \in 1..MaxReconf : CronsRecvRecomp(k)
    \/ CronsStop
    \/ \E list \in GoodLists : CronHandler(Secret, list)
    \/ \E list \in RefusedLists : CronHandler(WrongSecret, list)
    \/ \E k \in 1..MaxReconf : CronHandlerInsert(k)
    \/ InsertHandler(WrongSecret, now)
    \/ \E id \in jobs : DeleteHandler(WrongSecret, id)

AuthSpec == AuthInit /\ [][AuthNext]_vars

\* ======================= claims =======================

\* C1: in a single scheduler instance the Callback Sender (executeJob) is invoked at
\* most once for any job id, whatever the interleaving of createNewJob,
\* deleteFutureJob and the sweeps.
C1_AtMostOnce == \A j \in JobIds : calls[j] <= 1

\* A job was dispatched and deleted, and a later sweep at a later time dispatched another.
C1_Witness ==
    \E j, k \in JobIds : /\ calls[j] = 1 /\ j \notin jobs
                         /\ calls[k] = 1 /\ callAt[k] > callAt[j]

\* C2: every job persisted by createNewJob that is never cancelled is eventually
\* dispatched and then deleted from the Job table (the store fails only by
\* not-found, the clock advances and the scheduler is scheduled).
C2_EventuallyDispatched ==
    \A j \in JobIds :
        [](j \in jobs => <>(cancelAt[j] # NoTime \/ (calls[j] >= 1 /\ j \notin jobs)))

\* C3: every executeJob invocation for a job happens at a clock time greater than
\* or equal to the job's scheduledFor.
C3_NotBeforeScheduledFor ==
    \A j \in JobIds : calls[j] > 0 => callAt[j] >= scheduledFor[j]

\* A job scheduled for a later time was dispatched when the clock reached it, and a
\* job created with a time already past was dispatched too.
C3_Witness ==
    \E j, k \in JobIds : /\ calls[j] = 1 /\ scheduledFor[j] > 0
                         /\ callAt[j] = scheduledFor[j]
                         /\ calls[k] = 1 /\ callAt[k] > scheduledFor[k]

\* C4: a job whose row deleteFutureJob deleted at a clock time strictly before its
\* scheduledFor is never handed to executeJob.
C4_CancelledEarlyNeverCalled ==
    \A j \in JobIds :
        (cancelAt[j] # NoTime /\ cancelAt[j] < scheduledFor[j]) => calls[j] = 0

\* A job was cancelled before its time, and a sweep at or after that time
\* dispatched another job and not the cancelled one.
C4_Witness ==
    \E j, k \in JobIds : /\ cancelAt[j] # NoTime /\ cancelAt[j] < scheduledFor[j]
                         /\ calls[j] = 0
                         /\ calls[k] = 1 /\ callAt[k] >= scheduledFor[j]

\* C5: with a Job store that fails only by not-found, scheduler.start never
\* returns (the scheduler never reaches STOPPED).
C5_NeverStopped == spc # "stopped"

\* The started and not stopped triggers.
ActiveEntries == UNION {c.entries : c \in clients}

InFlight(k) == reqs[k].st \in {"insert", "send"}
NoneInFlight == \A k \in DOMAIN reqs : ~InFlight(k)
AllReturnedOk == \A k \in DOMAIN reqs : reqs[k].st = "ok"

\* C6: once the engine has rebuilt on the signal of a successful /cron request with
\* N descriptors of distinct ids, and no other request is in flight, the engine is
\* RUNNING with exactly N active triggers, one per descriptor of that request
\* (stated for the runs in which every request so far returned success).
C6_ExactlyTheCallsTriggers ==
    (/\ processed # 0
     /\ NoneInFlight
     /\ AllReturnedOk
     /\ DistinctIds(reqs[processed].jobs))
    => /\ cpc = "running"
       /\ ActiveEntries = Range(reqs[processed].jobs)
       /\ Cardinality(ActiveEntries) = Len(reqs[processed].jobs)

C8_FullReplace ==
    (reqs # <<>> /\ AllReturnedOk)
    => \E k \in DOMAIN reqs :
          /\ crons = Range(reqs[k].jobs)
          /\ cpc = "running" => ActiveEntries = Range(reqs[k].jobs)

\* C9: when every /cron request has returned, whatever its outcome, the RUNNING
\* engine's active triggers are the rows of the Cron table (stated for requests
\* whose lists have distinct ids).
C9_Converged ==
    (/\ NoneInFlight
     /\ cpc = "running"
     /\ \A k \in DOMAIN reqs : DistinctIds(reqs[k].jobs))
    => ActiveEntries = crons

\* C10: deleteFutureJob of an id that is not in the Job table returns nil, leaves
\* the table unchanged, emits no signal and causes no executeJob invocation.
C10_CancelMissing ==
    [][(\E id \in (JobIds \cup {UnknownId}) \ jobs : DeleteFutureJob(id))
         => /\ cancelRet' = "nil"
            /\ UNCHANGED <<now, jobs, scheduledFor, nextId, spc, beforeEquals, listed, due,
                           cur, ts, serr, recompSend, calls, callAt, cancelAt, returned,
                           failed>>]_vars

\* deleteFutureJob returned nil although no call of it ever deleted a row, while
\* the table holds a job.
C10_Witness == cancelRet = "nil" /\ jobs # {} /\ \A j \in JobIds : cancelAt[j] = NoTime

\* C11: when executePendingJobs has returned nil, every job its query listed (the
\* rows with scheduledFor <= the query's time.Now()) has been handed to executeJob
\* once and is no longer in the Job table, before nextScheduledJob runs.
C11_SweepDispatchesAllDue ==
    spc = "next" => \A j \in listed : calls[j] = 1 /\ j \notin jobs

\* A sweep that listed two jobs has returned nil.
C11_Witness == spc = "next" /\ Cardinality(listed) >= 2

\* C12: when a sweep ends with jobs remaining, the scheduler sleeps with the earliest
\* remaining scheduledFor T as its target; a step from the sleep to the next sweep
\* that receives no signal happens at a clock >= T; and from the moment the clock
\* reaches T the timer case of the select is ready, so that the sleeping scheduler
\* can begin the next sweep.
C12_WakeAtEarliest ==
    /\ [][(spc = "next" /\ spc' = "sleeping")
            => /\ \E j \in jobs : ts' = scheduledFor[j]
               /\ \A j \in jobs : ts' <= scheduledFor[j]]_vars
    /\ [][(spc = "sleeping" /\ spc' = "sweep" /\ recompSend' = recompSend)
            => now >= ts]_vars
    /\ []((spc = "sleeping" /\ now >= ts) => ENABLED TimerFire)

\* With the clock advancing and the scheduler scheduled, every sleep ends in a sweep.
C12_SleepEnds == [](spc = "sleeping" => <>(spc = "sweep"))

\* The scheduler slept for a job due in the future while no handler was sending,
\* and began the sweep that dispatched the job at the job's time.
C12_Witness ==
    \E j \in JobIds : /\ scheduledFor[j] > 0 /\ callAt[j] = scheduledFor[j]
                       /\ returned = {k \in JobIds : k < nextId}
                       /\ recompSend = 0 /\ spc = "delete" /\ cur = {j}

\* C13: if the start of one of the three workers has returned an error, runServers
\* eventually returns a worker's error, whatever handlers are blocked in a send.
C13_RunServersReturns ==
    \A w \in Workers :
        [](StartReturned(w) => <>(rpc = "returned" /\ rerr # "none"))

\* C14: a request to /insert, /delete or /cron whose Scheduler-Secret header is not
\* the configured secret is answered 401 and changes nothing: the Job table, the
\* Cron table and the active triggers are unchanged, and no handler starts a send
\* on s.recomp or cs.recomp.
C14_UnauthorizedChangesNothing ==
    [][(\E sec \in Secrets \ {Secret} :
           \/ InsertHandler(sec, now)
           \/ \E id \in jobs : DeleteHandler(sec, id)
           \/ \E list \in RefusedLists : CronHandler(sec, list))
         => /\ resp' = StatusUnauthorized
            /\ UNCHANGED <<jobs, scheduledFor, nextId, recompSend, cancelAt, cancelRet>>
            /\ UNCHANGED <<crons, clients, reqs, gen>>]_vars

\* A request was refused with 401 while the Job table and the Cron table held rows
\* and triggers were active.
C14_Witness ==
    /\ resp = StatusUnauthorized
    /\ jobs # {} /\ crons # {} /\ ActiveEntries # {}

\* C15: the signals of the createNewJob and deleteFutureJob calls made while the
\* scheduler is mid-sweep coalesce: when the scheduler wakes on a signal, no
\* sender is left blocked to make it sweep again, so k >= 2 such calls cause one
\* follow-up sweep, not k (stated for the runs in which calls arrive mid-sweep only).
C15_SignalsCoalesce ==
    [][(spc \in {"waiting", "sleeping"} /\ spc' = "sweep" /\ recompSend' < recompSend)
         => recompSend' = 0]_vars

\* C16: whenever the scheduler is blocked and no createNewJob or deleteFutureJob
\* call is between its store write and the receipt of its signal, the scheduler
\* waits for a signal if and only if the Job table is empty, and else sleeps with
\* ts the minimum scheduledFor of the rows of the table.
C16_SleepTargetNotStale ==
    (spc \in {"waiting", "sleeping"} /\ recompSend = 0)
    => /\ spc = "waiting" <=> jobs = {}
       /\ spc = "sleeping" => /\ \E j \in jobs : ts = scheduledFor[j]
                              /\ \A j \in jobs : ts <= scheduledFor[j]

\* The scheduler sleeps until the earlier of two jobs with different times, every
\* signal received, the later job having been created first.
C16_Witness ==
    /\ spc = "sleeping" /\ recompSend = 0
    /\ \E j, k \in jobs : j < k /\ scheduledFor[k] < scheduledFor[j] /\ ts = scheduledFor[k]

\* C17: a failed delivery (executeJob returns an error) is not retried and does not
\* abort the sweep: the job is handed to executeJob once, it stays in the Job table
\* only until the delete of its own loop iteration, a sweep that returns nil has
\* dispatched and deleted every job it listed, and the scheduler does not stop
\* (stated for the runs without deleteFutureJob calls).
C17_DeliveryFailureIsolated ==
    /\ \A j \in failed : calls[j] = 1
    /\ \A j \in failed : j \in jobs => (spc = "delete" /\ cur = {j})
    /\ spc = "next" => \A j \in listed : calls[j] = 1 /\ j \notin jobs
    /\ spc # "stopped"

\* A sweep whose first delivery failed went on to dispatch another job, deleted
\* both and returned nil.
C17_Witness ==
    /\ spc = "next" /\ Cardinality(listed) >= 2
    /\ \E j \in listed : j \in failed
    /\ \E k \in listed : k \notin failed

\* C18: if the delete of a dispatched job fails during a sweep (the row is still in
\* the table when the loop iteration ends), scheduler.start returns the error
\* without another step of the loop; the jobs left in the slice are not dispatched;
\* and once scheduler.start has returned there is no further sweep or dispatch.
C18_DeleteFailureIsFatal ==
    /\ [][(spc = "delete" /\ spc' # "delete" /\ cur \subseteq jobs')
            => /\ spc' = "stopped" /\ serr' # "none"
               /\ UNCHANGED <<calls, due, listed>>]_vars
    /\ [](spc = "stopped" => \A j \in due : calls[j] = 0)
    /\ [][spc = "stopped"
            => /\ spc' = "stopped"
               /\ UNCHANGED <<calls, callAt, due, listed, cur, serr>>]_vars

\* The delete of the first of two listed jobs failed: the scheduler has stopped with
\* the second job not dispatched, and the clock has advanced since.
C18_Witness ==
    /\ spc = "stopped" /\ serr = "store"
    /\ Cardinality(listed) >= 2 /\ due # {}
    /\ \E j \in cur : calls[j] = 1 /\ callAt[j] < now

\* C19: every createNewJob, deleteFutureJob and /cron call eventually returns to its
\* caller: whenever some handler has not returned, a moment comes at which every
\* handler has (the calls are finitely many) or the process has ended, also when
\* the call was made mid-sweep or after scheduler.start or crons.start returned
\* an error.
C19_CallsReturn == [](ActiveHandlers => <>(~ActiveHandlers \/ ~Alive))

\* C20: a /cron request with a schedule expression that AddFunc rejects is stored
\* and answered as a success like any other: an insert of a row whose id is not in
\* the table adds the row whatever its expression, and the request returns success
\* when its signal is received.  A build that finds a rejected expression in the
\* Cron table ends crons.start with no client started and the table unchanged, and
\* a stopped engine has no trigger set running.
C20_RejectedSpecStopsEngine ==
    /\ [][\A k \in DOMAIN reqs :
             (reqs[k].st = "insert" /\ reqs'[k] # reqs[k]
                /\ ~DuplicateId(reqs[k].jobs[reqs[k].i]))
             => /\ reqs[k].jobs[reqs[k].i] \in crons'
                /\ reqs'[k].st \in {"insert", "send"}]_vars
    /\ [][\A k \in DOMAIN reqs :
             (reqs[k].st = "send" /\ reqs'[k] # reqs[k]) => reqs'[k].st = "ok"]_vars
    /\ [][(cpc = "build" /\ cpc' # "build" /\ \E d \in crons : ~ParseOk(d.spec))
            => /\ cpc' = "stopped"
               /\ UNCHANGED <<crons, clients, gen>>]_vars
    /\ [](cpc = "stopped" => clients = {})

\* A request with a rejected expression returned success after an earlier client had
\* run; the engine has stopped and the rejected row is in the Cron table.
C20_Witness ==
    /\ cpc = "stopped" /\ gen >= 1
    /\ \E k \in DOMAIN reqs :
          /\ reqs[k].st = "ok" /\ processed = k
          /\ \E d \in Range(reqs[k].jobs) : ~ParseOk(d.spec) /\ d \in crons

====
